---------------------------- MODULE Spec2Model ----------------------------
(***************************************************************************)
(* A model of void-helper (src/src/main.rs): the install pipeline          *)
(* (exact lookup, workspace preparation, clone, build, retry with the PGP  *)
(* check skipped, suggestions when the package is not found) and the       *)
(* remove command.                                                         *)
(*                                                                         *)
(* Strings are tuples of one-character strings, so that to_lowercase,      *)
(* starts_with and split are computed character by character.  An          *)
(* Option<T> is a tuple of length at most one.                             *)
(***************************************************************************)
EXTENDS Integers, Sequences, FiniteSets, TLC

(***************************************************************************)
(* Bounds of the model.                                                    *)
(***************************************************************************)
MaxNameLen == 3
MaxQueryLen == 2
MaxResults == 6
MaxInfoResults == 2

(***************************************************************************)
(* Program constants.                                                      *)
(***************************************************************************)
SuggestionCap == 5
ExitSuccess == 0
ExitFailure == 1

Procs == {1, 2}

None == << >>
Some(x) == << x >>

(***************************************************************************)
(* Characters and strings.                                                 *)
(***************************************************************************)
LowerLetters ==
    {"a", "b", "c", "d", "e", "f", "g", "h", "i", "j", "k", "l", "m",
     "n", "o", "p", "q", "r", "s", "t", "u", "v", "w", "x", "y", "z"}
UpperLetters ==
    {"A", "B", "C", "D", "E", "F", "G", "H", "I", "J", "K", "L", "M",
     "N", "O", "P", "Q", "R", "S", "T", "U", "V", "W", "X", "Y", "Z"}
Digits == {"0", "1", "2", "3", "4", "5", "6", "7", "8", "9"}

IsAlphanumeric(c) == c \in LowerLetters \cup UpperLetters \cup Digits

UpperToLower ==
    [c \in UpperLetters |->
        CASE c = "A" -> "a" [] c = "B" -> "b" [] c = "C" -> "c" [] c = "D" -> "d"
          [] c = "E" -> "e" [] c = "F" -> "f" [] c = "G" -> "g" [] c = "H" -> "h"
          [] c = "I" -> "i" [] c = "J" -> "j" [] c = "K" -> "k" [] c = "L" -> "l"
          [] c = "M" -> "m" [] c = "N" -> "n" [] c = "O" -> "o" [] c = "P" -> "p"
          [] c = "Q" -> "q" [] c = "R" -> "r" [] c = "S" -> "s" [] c = "T" -> "t"
          [] c = "U" -> "u" [] c = "V" -> "v" [] c = "W" -> "w" [] c = "X" -> "x"
          [] c = "Y" -> "y" [] c = "Z" -> "z"]

\* str::to_lowercase, on the characters of the model
to_lowercase(s) ==
    [i \in 1..Len(s) |-> IF s[i] \in UpperLetters THEN UpperToLower[s[i]] ELSE s[i]]

\* str::starts_with
starts_with(s, prefix) ==
    /\ Len(prefix) <= Len(s)
    /\ SubSeq(s, 1, Len(prefix)) = prefix

\* str::split(char): the parts of s between the occurrences of sep; a string
\* without sep is one part, and an empty string is one empty part.
RECURSIVE SplitFrom(_, _, _, _)
SplitFrom(s, sep, i, part) ==
    IF i > Len(s) THEN << part >>
    ELSE IF s[i] = sep THEN << part >> \o SplitFrom(s, sep, i + 1, << >>)
    ELSE SplitFrom(s, sep, i + 1, Append(part, s[i]))

split(s, sep) == SplitFrom(s, sep, 1, << >>)

\* Iterator::any over a sequence of parts
any_part(parts, q) == \E i \in 1..Len(parts) : parts[i] = q

(***************************************************************************)
(* search_packages: the closure handed to filter, and the filter.          *)
(***************************************************************************)
FilterContainsMutant(pkg_name, query_arg) ==
    LET name == to_lowercase(pkg_name)
        query == to_lowercase(query_arg)
    IN  \E i \in 1..(Len(name) + 1) :
            /\ i + Len(query) - 1 <= Len(name)
            /\ SubSeq(name, i, i + Len(query) - 1) = query

filter_closure(pkg_name, query_arg) ==
    LET name == to_lowercase(pkg_name)
        query == to_lowercase(query_arg)
    IN  \/ starts_with(name, query)
        \/ any_part(split(name, "-"), query)
        \/ any_part(split(name, "_"), query)

Reverse(s) == [i \in 1..Len(s) |-> s[Len(s) + 1 - i]]

FilterReversedMutant(results, query) ==
    LET Keep(pkg) == filter_closure(pkg.name, query)
    IN  Reverse(SelectSeq(results, Keep))

search_filter(results, query) ==
    LET Keep(pkg) == filter_closure(pkg.name, query)
    IN  SelectSeq(results, Keep)

(***************************************************************************)
(* get_package_info: the first element of results, if any.                 *)
(***************************************************************************)
LastResultMutant(results) ==
    IF Len(results) = 0 THEN None ELSE Some(results[Len(results)])

first_result(results) ==
    IF Len(results) = 0 THEN None ELSE Some(Head(results))

(***************************************************************************)
(* suggest_similar_packages: iter().take(5).enumerate() and the line       *)
(* printed for each package.                                               *)
(***************************************************************************)
TakeAllMutant(s, n) == s

take(s, n) == IF Len(s) <= n THEN s ELSE SubSeq(s, 1, n)

NoDescription == <<"N", "o", " ", "d", "e", "s", "c", "r", "i", "p", "t", "i", "o", "n">>

suggestion_lines(packages) ==
    LET shown == take(packages, SuggestionCap)
    IN  [i \in 1..Len(shown) |->
            [index |-> i,
             name |-> shown[i].name,
             description |-> IF shown[i].description = None
                             THEN NoDescription
                             ELSE shown[i].description[1]]]


(***************************************************************************)
(* Inputs.  A package is an AurPackage {name, package_base, description}.  *)
(***************************************************************************)
AurPackage(name, package_base, description) ==
    [name |-> name, package_base |-> package_base, description |-> description]

\* The alphabet of the exhaustively enumerated names and queries: a lower
\* case letter, an upper case letter, the two separators the filter splits
\* on, and a separator it does not split on.
Chars == {"a", "B", "-", "_", "."}

StringsUpTo(n) == UNION {[1..k -> Chars] : k \in 0..n}

foo == <<"f", "o", "o">>
bar == <<"b", "a", "r">>
foobar == <<"f", "o", "o", "b", "a", "r">>
barfoo == <<"b", "a", "r", "f", "o", "o">>
oo_foo_bar == <<"o", "o", "-", "f", "o", "o", "-", "b", "a", "r">>
xyz == <<"x", "y", "z">>
a_description == <<"d">>

\* The names of the search scenario, as packages.
ScenarioPackages ==
    {AurPackage(foobar, foobar, Some(a_description)),
     AurPackage(barfoo, barfoo, None),
     AurPackage(oo_foo_bar, oo_foo_bar, None),
     AurPackage(xyz, xyz, None)}

ScenarioResults ==
    <<AurPackage(foobar, foobar, Some(a_description)),
      AurPackage(barfoo, barfoo, None),
      AurPackage(oo_foo_bar, oo_foo_bar, None),
      AurPackage(xyz, xyz, None)>>

\* Search responses of up to MaxResults scenario packages, in any order.
ListResponses == UNION {[1..k -> ScenarioPackages] : k \in 0..MaxResults}

\* Search responses of one package, of any name over Chars.
SingleResponses ==
    {<<AurPackage(n, n, None)>> : n \in StringsUpTo(MaxNameLen)}

\* What the install and remove commands of the pipeline are given, and
\* what the info query answers.
Packages == {foo, xyz}

InfoPackages ==
    {AurPackage(foo, foo, None), AurPackage(foobar, bar, Some(a_description))}

InfoResults == UNION {[1..k -> InfoPackages] : k \in 0..MaxInfoResults}

\* reqwest::get(..).await?.json().await?: a transport error, a body that
\* does not decode, or the decoded AurResponse.
HttpErrors == {"NetworkError", "DecodeError"}

Ok(results) == [err |-> None, results |-> results]
Err(kind) == [err |-> Some(kind), results |-> << >>]

InfoReplies == {Err(e) : e \in HttpErrors} \cup {Ok(r) : r \in InfoResults}

\* std::process::Command::status(): the program could not be launched, or
\* it ran and exited with a status.
ExitResults == {"launch_err", "nonzero", "ok"}

(***************************************************************************)
(* The workspace on disk: dirs::home_dir()/aur-builds/<package_base>.      *)
(***************************************************************************)
home_dir == <<"~">>
aur_builds == <<"a", "u", "r", "-", "b", "u", "i", "l", "d", "s">>

build_dir_of(package_base) == <<home_dir, aur_builds, package_base>>

PackageBases ==
    {x.package_base : x \in InfoPackages}

\* The directories the disk model tracks: one for each package_base a
\* record can carry and for each name a user can type.
Paths == {build_dir_of(b) : b \in PackageBases \cup Packages}

\* What a clone or a build can leave in the directory.
Files == {"partial", "PKGBUILD", "pkg"}

Absent == [exists |-> FALSE, files |-> {}]
EmptyDir == [exists |-> TRUE, files |-> {}]
Dir(files) == [exists |-> TRUE, files |-> files]

(***************************************************************************)
(* State.                                                                  *)
(***************************************************************************)
VARIABLES
    fs,          \* the workspace directories on disk
    aur_search,  \* what the AUR answers to a search query
    schedule,    \* whether invocations are started one after the other
    pc,          \* where each invocation is
    argv,        \* the subcommand and its package argument
    pkg,         \* install_package: the result of get_package_info
    response,    \* get_package_info: the AurResponse it decoded
    packages,    \* suggest_similar_packages: the filtered search results
    shown,       \* the suggestion lines printed
    calls,       \* the remote queries, file operations and subprocesses issued
    out,         \* the messages printed, in order
    status       \* the exit status of the process, once it has exited

vars ==
    <<fs, aur_search, schedule, pc, argv, pkg, response, packages, shown, calls,
      out, status>>

NoArgv == [cmd |-> "none", package |-> << >>]

\* build_dir, but joined with the name typed on the command line.
BuildDirFromNameMutant(p) == build_dir_of(argv[p].package)

build_dir(p) == build_dir_of(pkg[p][1].package_base)

\* A logged call: what was called, with what, in which working directory
\* (None: the one of the process), and how it ended.
CallIn(op, arg, res, cwd) == [op |-> op, arg |-> arg, res |-> res, cwd |-> cwd]

Call(op, arg, res) == CallIn(op, arg, res, None)

ProcInit ==
    /\ pc = [p \in Procs |-> "idle"]
    /\ argv = [p \in Procs |-> NoArgv]
    /\ pkg = [p \in Procs |-> None]
    /\ response = [p \in Procs |-> None]
    /\ packages = [p \in Procs |-> << >>]
    /\ shown = [p \in Procs |-> << >>]
    /\ calls = [p \in Procs |-> << >>]
    /\ out = [p \in Procs |-> << >>]
    /\ status = [p \in Procs |-> None]

Init ==
    /\ fs = [d \in Paths |-> Absent]
    /\ aur_search \in {<< >>, ScenarioResults}
    /\ schedule = "serial"
    /\ ProcInit

(***************************************************************************)
(* Steps.  Every step is one blocking call of the program together with    *)
(* what the program does with its result up to the next blocking call.    *)
(***************************************************************************)
Step(p, next_pc, msgs, call, exit_status) ==
    /\ pc' = [pc EXCEPT ![p] = next_pc]
    /\ out' = [out EXCEPT ![p] = @ \o msgs]
    /\ calls' = [calls EXCEPT ![p] = Append(@, call)]
    /\ status' = [status EXCEPT ![p] = exit_status]

\* the function goes on to its next call
Continue(p, next_pc, msgs, call) == Step(p, next_pc, msgs, call, None)

\* install_package or remove_package returns Ok(()), and so does main
ReturnOk(p, msgs, call) ==
    Step(p, "exited", msgs, call, Some(ExitSuccess))

\* a `?` hands an Err up to main, which returns it: the runtime prints
\* "Error: ..." and the process exits with a failure status
ReturnErr(p, msgs, call) ==
    Step(p, "exited", msgs \o <<"Error:">>, call, Some(ExitFailure))

\* main: the subcommand and its package argument
Main(p, cmd, package) ==
    /\ pc[p] = "idle"
    /\ cmd \in {"install", "remove"}
    /\ argv' = [argv EXCEPT ![p] = [cmd |-> cmd, package |-> package]]
    /\ pc' = [pc EXCEPT ![p] =
                IF cmd = "install" THEN "get_package_info" ELSE "remove_package"]
    /\ UNCHANGED <<fs, aur_search, schedule, pkg, response, packages, shown, calls, out, status>>

\* InstallLookup, but a package that is not found ends the invocation
\* without the search for similar packages.
LookupWithoutSuggestionsMutant(p) ==
    /\ pc[p] = "get_package_info"
    /\ \E reply \in InfoReplies :
          IF reply.err # None
          THEN /\ ReturnErr(p, << >>, Call("info", argv[p].package, reply.err[1]))
               /\ UNCHANGED <<pkg, response>>
          ELSE LET found == first_result(reply.results)
               IN  /\ response' = [response EXCEPT ![p] = Some(reply.results)]
                   /\ pkg' = [pkg EXCEPT ![p] = found]
                   /\ IF found # None
                      THEN Continue(p, "exists", <<"Installing:">>,
                                    Call("info", argv[p].package, "some"))
                      ELSE ReturnOk(p, <<"Package not found in AUR:">>,
                                    Call("info", argv[p].package, "none"))
    /\ UNCHANGED <<fs, aur_search, schedule, argv, packages, shown>>

\* InstallLookup, but a failed query is taken for a package that is not
\* found.
LookupErrorSearchesMutant(p) ==
    /\ pc[p] = "get_package_info"
    /\ \E reply \in InfoReplies :
          IF reply.err # None
          THEN /\ Continue(p, "suggest_similar_packages",
                           <<"Package not found in AUR:">>,
                           Call("info", argv[p].package, reply.err[1]))
               /\ UNCHANGED <<pkg, response>>
          ELSE LET found == first_result(reply.results)
               IN  /\ response' = [response EXCEPT ![p] = Some(reply.results)]
                   /\ pkg' = [pkg EXCEPT ![p] = found]
                   /\ IF found # None
                      THEN Continue(p, "exists", <<"Installing:">>,
                                    Call("info", argv[p].package, "some"))
                      ELSE Continue(p, "suggest_similar_packages",
                                    <<"Package not found in AUR:">>,
                                    Call("info", argv[p].package, "none"))
    /\ UNCHANGED <<fs, aur_search, schedule, argv, packages, shown>>

\* install_package: get_package_info(package).await? and the match on it
InstallLookup(p) ==
    /\ pc[p] = "get_package_info"
    /\ \E reply \in InfoReplies :
          IF reply.err # None
          THEN /\ ReturnErr(p, << >>, Call("info", argv[p].package, reply.err[1]))
               /\ UNCHANGED <<pkg, response>>
          ELSE LET found == first_result(reply.results)
               IN  /\ response' = [response EXCEPT ![p] = Some(reply.results)]
                   /\ pkg' = [pkg EXCEPT ![p] = found]
                   /\ IF found # None
                      THEN Continue(p, "exists", <<"Installing:">>,
                                    Call("info", argv[p].package, "some"))
                      ELSE Continue(p, "suggest_similar_packages",
                                    <<"Package not found in AUR:">>,
                                    Call("info", argv[p].package, "none"))
    /\ UNCHANGED <<fs, aur_search, schedule, argv, packages, shown>>

\* InstallExists, but an existing directory is kept as it is.
ExistsKeepsDirectoryMutant(p) ==
    /\ pc[p] = "exists"
    /\ LET d == build_dir(p)
       IN  Continue(p, "create_dir_all", << >>,
                    Call("exists", d,
                         IF ~fs[d].exists THEN "absent"
                         ELSE IF fs[d].files = {} THEN "empty" ELSE "nonempty"))
    /\ UNCHANGED <<fs, aur_search, schedule, argv, pkg, response, packages, shown>>

\* install_package: if build_dir.exists() { println!(..) }.  The call is
\* logged with what it found there.
InstallExists(p) ==
    /\ pc[p] = "exists"
    /\ LET d == build_dir(p)
       IN  IF fs[d].exists
           THEN Continue(p, "remove_dir_all", <<"Removing existing directory:">>,
                         Call("exists", d,
                              IF fs[d].files = {} THEN "empty" ELSE "nonempty"))
           ELSE Continue(p, "create_dir_all", << >>, Call("exists", d, "absent"))
    /\ UNCHANGED <<fs, aur_search, schedule, argv, pkg, response, packages, shown>>

\* InstallRemoveDirAll, but the removal waits while another invocation
\* is cloning into the same directory or building in it.
RemoveDirAllWaitsMutant(p) ==
    /\ pc[p] = "remove_dir_all"
    /\ LET d == build_dir(p)
       IN  /\ \A q \in Procs \ {p} :
                 (pkg[q] # None /\ build_dir(q) = d) =>
                     pc[q] \notin {"git_clone", "makepkg", "makepkg_skippgpcheck"}
           /\ \E ok \in BOOLEAN :
                 IF ok /\ fs[d].exists
                 THEN /\ fs' = [fs EXCEPT ![d] = Absent]
                      /\ Continue(p, "create_dir_all", << >>,
                                  Call("remove_dir_all", d, "ok"))
                 ELSE /\ \E left \in SUBSET fs[d].files :
                            fs' = [fs EXCEPT ![d].files = left]
                      /\ ReturnErr(p, << >>, Call("remove_dir_all", d, "err"))
    /\ UNCHANGED <<aur_search, schedule, argv, pkg, response, packages, shown>>

\* install_package: fs::remove_dir_all(&build_dir)?.  A failure may have
\* removed part of the tree; a directory that is gone by now is an error.
InstallRemoveDirAll(p) ==
    /\ pc[p] = "remove_dir_all"
    /\ LET d == build_dir(p)
       IN  \E ok \in BOOLEAN :
              IF ok /\ fs[d].exists
              THEN /\ fs' = [fs EXCEPT ![d] = Absent]
                   /\ Continue(p, "create_dir_all", << >>,
                               Call("remove_dir_all", d, "ok"))
              ELSE /\ \E left \in SUBSET fs[d].files :
                         fs' = [fs EXCEPT ![d].files = left]
                   /\ ReturnErr(p, << >>, Call("remove_dir_all", d, "err"))
    /\ UNCHANGED <<aur_search, schedule, argv, pkg, response, packages, shown>>

\* InstallCreateDirAll, but the job goes on to the clone when the
\* directory could not be created.
CreateDirFailureIgnoredMutant(p) ==
    /\ pc[p] = "create_dir_all"
    /\ LET d == build_dir(p)
       IN  \E ok \in BOOLEAN :
              IF ok
              THEN /\ fs' = [fs EXCEPT ![d].exists = TRUE]
                   /\ Continue(p, "git_clone", << >>,
                               Call("create_dir_all", d, "ok"))
              ELSE /\ UNCHANGED fs
                   /\ Continue(p, "git_clone", << >>,
                               Call("create_dir_all", d, "err"))
    /\ UNCHANGED <<aur_search, schedule, argv, pkg, response, packages, shown>>

\* install_package: fs::create_dir_all(&build_dir)?
InstallCreateDirAll(p) ==
    /\ pc[p] = "create_dir_all"
    /\ LET d == build_dir(p)
       IN  \E ok \in BOOLEAN :
              IF ok
              THEN /\ fs' = [fs EXCEPT ![d].exists = TRUE]
                   /\ Continue(p, "git_clone", << >>,
                               Call("create_dir_all", d, "ok"))
              ELSE /\ UNCHANGED fs
                   /\ ReturnErr(p, << >>, Call("create_dir_all", d, "err"))
    /\ UNCHANGED <<aur_search, schedule, argv, pkg, response, packages, shown>>

\* InstallGitClone, but the build goes on after a clone that exited with
\* a non-zero status.
GitCloneStatusIgnoredMutant(p) ==
    /\ pc[p] = "git_clone"
    /\ LET d == build_dir(p)
           writable == fs[d].files = {}
       IN  \E res \in ExitResults :
              CASE res = "launch_err" ->
                     /\ UNCHANGED fs
                     /\ ReturnErr(p, << >>, Call("git_clone", d, res))
                [] res = "nonzero" ->
                     /\ UNCHANGED fs
                     /\ Continue(p, "makepkg", <<"Failed to clone repository">>,
                                 Call("git_clone", d, res))
                [] res = "ok" ->
                     /\ writable
                     /\ fs' = [fs EXCEPT ![d] = Dir({"PKGBUILD"})]
                     /\ Continue(p, "makepkg", << >>, Call("git_clone", d, res))
    /\ UNCHANGED <<aur_search, schedule, argv, pkg, response, packages, shown>>

\* InstallGitClone, but a clone that exited with a non-zero status is
\* cleaned up: the directory is removed before the job ends.
GitCloneCleansUpMutant(p) ==
    /\ pc[p] = "git_clone"
    /\ LET d == build_dir(p)
           writable == fs[d].files = {}
       IN  \E res \in ExitResults :
              CASE res = "launch_err" ->
                     /\ UNCHANGED fs
                     /\ ReturnErr(p, << >>, Call("git_clone", d, res))
                [] res = "nonzero" ->
                     /\ fs' = [fs EXCEPT ![d] = Absent]
                     /\ ReturnOk(p, <<"Failed to clone repository">>,
                                 Call("git_clone", d, res))
                [] res = "ok" ->
                     /\ writable
                     /\ fs' = [fs EXCEPT ![d] = Dir({"PKGBUILD"})]
                     /\ Continue(p, "makepkg", << >>, Call("git_clone", d, res))
    /\ UNCHANGED <<aur_search, schedule, argv, pkg, response, packages, shown>>

\* install_package: git clone <aur_url> <build_dir>, .status()?, and the
\* check of git_status.  git clones only into a missing or empty directory.
InstallGitClone(p) ==
    /\ pc[p] = "git_clone"
    /\ LET d == build_dir(p)
           writable == fs[d].files = {}
       IN  \E res \in ExitResults :
              CASE res = "launch_err" ->
                     /\ UNCHANGED fs
                     /\ ReturnErr(p, << >>, Call("git_clone", d, res))
                [] res = "nonzero" ->
                     /\ \E junk \in SUBSET {"partial"} :
                           fs' = IF writable /\ junk # {}
                                 THEN [fs EXCEPT ![d] = Dir(junk)]
                                 ELSE fs
                     /\ ReturnOk(p, <<"Failed to clone repository">>,
                                 Call("git_clone", d, res))
                [] res = "ok" ->
                     /\ writable
                     /\ fs' = [fs EXCEPT ![d] = Dir({"PKGBUILD"})]
                     /\ Continue(p, "makepkg", << >>, Call("git_clone", d, res))
    /\ UNCHANGED <<aur_search, schedule, argv, pkg, response, packages, shown>>

\* What a run of makepkg in build_dir does to the directory: it cannot be
\* launched in a missing directory, succeeds only with a PKGBUILD, and a
\* failed run may leave files behind.
MakepkgRun(d, res, next_fs) ==
    CASE res = "launch_err" -> next_fs = fs
      [] res = "nonzero" ->
           /\ fs[d].exists
           /\ \E junk \in SUBSET {"partial"} :
                 next_fs = [fs EXCEPT ![d].files = @ \cup junk]
      [] res = "ok" ->
           /\ fs[d].exists
           /\ "PKGBUILD" \in fs[d].files
           /\ next_fs = [fs EXCEPT ![d].files = @ \cup {"pkg"}]

\* InstallMakepkg, but the build is tried again whatever the first did.
MakepkgAlwaysRetriesMutant(p) ==
    /\ pc[p] = "makepkg"
    /\ LET d == build_dir(p)
       IN  \E res \in ExitResults :
              /\ MakepkgRun(d, res, fs')
              /\ Continue(p, "makepkg_skippgpcheck",
                          IF res = "ok" THEN <<"Successfully installed:">>
                          ELSE <<"First attempt failed, trying with PGP check skip...">>,
                          CallIn("makepkg", <<"-si">>, res, Some(d)))
    /\ UNCHANGED <<aur_search, schedule, argv, pkg, response, packages, shown>>

\* install_package: makepkg -si in build_dir, and the first arm of the
\* match on its status
InstallMakepkg(p) ==
    /\ pc[p] = "makepkg"
    /\ LET d == build_dir(p)
       IN  \E res \in ExitResults :
              /\ MakepkgRun(d, res, fs')
              /\ IF res = "ok"
                 THEN ReturnOk(p, <<"Successfully installed:">>,
                               CallIn("makepkg", <<"-si">>, res, Some(d)))
                 ELSE Continue(p, "makepkg_skippgpcheck",
                               <<"First attempt failed, trying with PGP check skip...">>,
                               CallIn("makepkg", <<"-si">>, res, Some(d)))
    /\ UNCHANGED <<aur_search, schedule, argv, pkg, response, packages, shown>>

\* InstallMakepkgSkipPgp, but a relaxed build that failed is tried once
\* more.
SkipPgpTriedAgainMutant(p) ==
    /\ pc[p] = "makepkg_skippgpcheck"
    /\ LET d == build_dir(p)
           call(res) == CallIn("makepkg", <<"-si", "--skippgpcheck">>, res, Some(d))
           again == Len(calls[p]) < 8
       IN  \E res \in ExitResults :
              /\ MakepkgRun(d, res, fs')
              /\ CASE res = "launch_err" -> ReturnErr(p, << >>, call(res))
                   [] res = "nonzero" ->
                        IF again
                        THEN Continue(p, "makepkg_skippgpcheck", << >>, call(res))
                        ELSE ReturnOk(p, <<"Failed to build and install package">>,
                                      call(res))
                   [] res = "ok" ->
                        ReturnOk(p, <<"Successfully installed with PGP check skip:">>,
                                 call(res))
    /\ UNCHANGED <<aur_search, schedule, argv, pkg, response, packages, shown>>

\* install_package: makepkg -si --skippgpcheck in build_dir, .status()?,
\* and the check of its status
InstallMakepkgSkipPgp(p) ==
    /\ pc[p] = "makepkg_skippgpcheck"
    /\ LET d == build_dir(p)
           call(res) == CallIn("makepkg", <<"-si", "--skippgpcheck">>, res, Some(d))
       IN  \E res \in ExitResults :
              /\ MakepkgRun(d, res, fs')
              /\ CASE res = "launch_err" -> ReturnErr(p, << >>, call(res))
                   [] res = "nonzero" ->
                        ReturnOk(p, <<"Failed to build and install package",
                                      "You may need to manually import PGP keys:",
                                      "Look for any missing key IDs in the error messages above",
                                      "Then run: gpg --recv-keys <KEY_ID>">>,
                                 call(res))
                   [] res = "ok" ->
                        ReturnOk(p, <<"Successfully installed with PGP check skip:">>,
                                 call(res))
    /\ UNCHANGED <<aur_search, schedule, argv, pkg, response, packages, shown>>

\* suggest_similar_packages: search_packages(query).await?, that is the
\* search query and the filter of its results
SuggestSearch(p) ==
    /\ pc[p] = "suggest_similar_packages"
    /\ LET query == argv[p].package
           msgs == <<"Searching for similar packages...">>
       IN  \E reply \in {Err(e) : e \in HttpErrors} \cup {Ok(aur_search)} :
              IF reply.err # None
              THEN /\ ReturnErr(p, msgs, Call("search", query, reply.err[1]))
                   /\ UNCHANGED packages
              ELSE /\ packages' = [packages EXCEPT ![p] =
                                      search_filter(reply.results, query)]
                   /\ Continue(p, "suggestions", msgs, Call("search", query, "ok"))
    /\ UNCHANGED <<fs, aur_search, schedule, argv, pkg, response, shown>>

\* suggest_similar_packages: what it prints of the filtered packages
SuggestShow(p) ==
    /\ pc[p] = "suggestions"
    /\ IF packages[p] = << >>
       THEN /\ pc' = [pc EXCEPT ![p] = "exited"]
            /\ out' = [out EXCEPT ![p] = Append(@, "No similar packages found.")]
            /\ UNCHANGED shown
       ELSE /\ pc' = [pc EXCEPT ![p] = "exited"]
            /\ out' = [out EXCEPT ![p] = Append(@, "Did you mean:")]
            /\ shown' = [shown EXCEPT ![p] = suggestion_lines(packages[p])]
    /\ status' = [status EXCEPT ![p] = Some(ExitSuccess)]
    /\ UNCHANGED <<fs, aur_search, schedule, argv, pkg, response, packages, calls>>

\* remove_package: sudo pacman -Rns <package>, .status()?, and the check
RemovePackage(p) ==
    /\ pc[p] = "remove_package"
    /\ LET call(res) == Call("pacman", argv[p].package, res)
           msgs == <<"Removing package:">>
       IN  \E res \in ExitResults :
              CASE res = "launch_err" -> ReturnErr(p, msgs, call(res))
                [] res = "nonzero" ->
                     ReturnOk(p, Append(msgs, "Failed to remove package"), call(res))
                [] res = "ok" ->
                     ReturnOk(p, Append(msgs, "Successfully removed:"), call(res))
    /\ UNCHANGED <<fs, aur_search, schedule, argv, pkg, response, packages, shown>>

\* The process is gone: nothing of the invocation is left but the disk.
ProcessExit(p) ==
    /\ pc[p] = "exited"
    /\ pc' = [pc EXCEPT ![p] = "idle"]
    /\ argv' = [argv EXCEPT ![p] = NoArgv]
    /\ pkg' = [pkg EXCEPT ![p] = None]
    /\ response' = [response EXCEPT ![p] = None]
    /\ packages' = [packages EXCEPT ![p] = << >>]
    /\ shown' = [shown EXCEPT ![p] = << >>]
    /\ calls' = [calls EXCEPT ![p] = << >>]
    /\ out' = [out EXCEPT ![p] = << >>]
    /\ status' = [status EXCEPT ![p] = None]
    /\ UNCHANGED <<fs, aur_search, schedule>>

(***************************************************************************)
(* Spec: invocations run one after the other.                              *)
(***************************************************************************)
Run(p) ==
    /\ \A q \in Procs \ {p} : pc[q] = "idle"
    /\ \E cmd \in {"install", "remove"}, package \in Packages : Main(p, cmd, package)

Next ==
    \E p \in Procs :
        \/ Run(p)
        \/ InstallLookup(p)
        \/ InstallExists(p)
        \/ InstallRemoveDirAll(p)
        \/ InstallCreateDirAll(p)
        \/ InstallGitClone(p)
        \/ InstallMakepkg(p)
        \/ InstallMakepkgSkipPgp(p)
        \/ SuggestSearch(p)
        \/ SuggestShow(p)
        \/ RemovePackage(p)
        \/ ProcessExit(p)

Spec == Init /\ [][Next]_vars

(***************************************************************************)
(* SpecFair: Spec, where every remote query, file operation and subprocess *)
(* an invocation waits for returns.  Nothing obliges a user to start an   *)
(* invocation or the next one.                                             *)
(***************************************************************************)
BlockingCallReturns(p) ==
    \/ InstallLookup(p)
    \/ InstallExists(p)
    \/ InstallRemoveDirAll(p)
    \/ InstallCreateDirAll(p)
    \/ InstallGitClone(p)
    \/ InstallMakepkg(p)
    \/ InstallMakepkgSkipPgp(p)
    \/ SuggestSearch(p)
    \/ SuggestShow(p)
    \/ RemovePackage(p)

SpecFair ==
    Init /\ [][Next]_vars /\ \A p \in Procs : WF_vars(BlockingCallReturns(p))

(***************************************************************************)
(* SpecConcurrent: two install invocations, each run once, started either  *)
(* one after the other or with nothing between them to order their steps.  *)
(***************************************************************************)
InitConcurrent ==
    /\ fs = [d \in Paths |-> Absent]
    /\ aur_search = ScenarioResults
    /\ schedule \in {"serial", "concurrent"}
    /\ ProcInit

\* the name both invocations are given; what it resolves to is the AUR's
\* answer, drawn in InstallLookup
RacedPackages == {foo}

\* main of an install; under the serial schedule it starts when no other
\* invocation is running
RunInstall(p) ==
    /\ schedule = "serial" => \A q \in Procs \ {p} : pc[q] \in {"idle", "exited"}
    /\ \E package \in RacedPackages : Main(p, "install", package)

NextConcurrent ==
    \E p \in Procs :
        \/ RunInstall(p)
        \/ InstallLookup(p)
        \/ InstallExists(p)
        \/ InstallRemoveDirAll(p)
        \/ InstallCreateDirAll(p)
        \/ InstallGitClone(p)
        \/ InstallMakepkg(p)
        \/ InstallMakepkgSkipPgp(p)
        \/ SuggestSearch(p)
        \/ SuggestShow(p)

SpecConcurrent == InitConcurrent /\ [][NextConcurrent]_vars

(***************************************************************************)
(* SpecSearch: the suggestion path alone, from the state install_package   *)
(* is in when the exact lookup of the query found nothing.  The response   *)
(* holds one package of any name over Chars and the query is any string    *)
(* over Chars, or it is a list of scenario packages and the query one of   *)
(* the scenario's.                                                         *)
(***************************************************************************)
ScenarioQueries == {foo, <<"F", "O", "O">>, <<"o", "o">>}

InitSearch ==
    /\ fs = [d \in Paths |-> Absent]
    /\ schedule = "serial"
    /\ \E query \in StringsUpTo(MaxQueryLen) \cup ScenarioQueries :
          /\ aur_search \in (IF query \in ScenarioQueries
                             THEN ListResponses ELSE SingleResponses)
          /\ argv = [p \in Procs |->
                        IF p = 1 THEN [cmd |-> "install", package |-> query]
                        ELSE NoArgv]
          /\ calls = [p \in Procs |->
                        IF p = 1 THEN <<Call("info", query, "none")>> ELSE << >>]
    /\ pc = [p \in Procs |-> IF p = 1 THEN "suggest_similar_packages" ELSE "idle"]
    /\ out = [p \in Procs |-> IF p = 1 THEN <<"Package not found in AUR:">> ELSE << >>]
    /\ pkg = [p \in Procs |-> None]
    /\ response = [p \in Procs |-> IF p = 1 THEN Some(<< >>) ELSE None]
    /\ packages = [p \in Procs |-> << >>]
    /\ shown = [p \in Procs |-> << >>]
    /\ status = [p \in Procs |-> None]

NextSearch ==
    \E p \in Procs :
        \/ SuggestSearch(p)
        \/ SuggestShow(p)

SpecSearch == InitSearch /\ [][NextSearch]_vars

(***************************************************************************)
(* What the properties below read off the state.                           *)
(***************************************************************************)
Range(s) == {s[i] : i \in 1..Len(s)}

CallsOf(p, op) ==
    LET IsOp(c) == c.op = op
    IN  SelectSeq(calls[p], IsOp)

\* the positions in calls[p] of the two kinds of build
PrimaryBuilds(p) ==
    {i \in 1..Len(calls[p]) :
        calls[p][i].op = "makepkg" /\ calls[p][i].arg = <<"-si">>}

RelaxedBuilds(p) ==
    {i \in 1..Len(calls[p]) :
        calls[p][i].op = "makepkg" /\ calls[p][i].arg = <<"-si", "--skippgpcheck">>}

Failed(c) == c.res # "ok"

Printed(p, msg) == msg \in Range(out[p])

SearchDone(p) ==
    \E i \in 1..Len(calls[p]) : calls[p][i].op = "search" /\ calls[p][i].res = "ok"

\* q occurs in name at position i, bounded on each side by a character
\* that is not alphanumeric or by an end of the name
TokenAt(name, q, i) ==
    LET j == i + Len(q) - 1
    IN  /\ j <= Len(name)
        /\ SubSeq(name, i, j) = q
        /\ i = 1 \/ ~IsAlphanumeric(name[i - 1])
        /\ j = Len(name) \/ ~IsAlphanumeric(name[j + 1])

ContainsToken(name, q) == \E i \in 1..(Len(name) + 1) : TokenAt(name, q, i)

ContainsSubstring(name, q) ==
    \E i \in 1..(Len(name) + 1) :
        /\ i + Len(q) - 1 <= Len(name)
        /\ SubSeq(name, i, i + Len(q) - 1) = q

\* the three rules: exact, prefix, token
MatchesRule(pkg_name, query_arg) ==
    LET name == to_lowercase(pkg_name)
        query == to_lowercase(query_arg)
    IN  \/ name = query
        \/ starts_with(name, query)
        \/ ContainsToken(name, query)

\* a is b with some of its elements left out
RECURSIVE IsSubsequence(_, _)
IsSubsequence(a, b) ==
    IF a = << >> THEN TRUE
    ELSE IF b = << >> THEN FALSE
    ELSE IF Head(a) = Head(b) THEN IsSubsequence(Tail(a), Tail(b))
    ELSE IsSubsequence(a, Tail(b))

Min(a, b) == IF a <= b THEN a ELSE b

(***************************************************************************)
(* Properties of search_packages and suggest_similar_packages, checked     *)
(* under SpecSearch.                                                       *)
(***************************************************************************)

\* C6: every package search_packages returns has a lower-cased name that
\* equals the lower-cased query, starts with it, or contains it as a token
\* bounded on both sides by a non-alphanumeric character or an end of the
\* name.
C6_ReturnedMatchARule ==
    \A p \in Procs :
        \A i \in 1..Len(packages[p]) :
            MatchesRule(packages[p][i].name, argv[p].package)

\* C6 witness: a package was returned whose name neither equals nor starts
\* with the query: it was kept for a token inside the name.
C6_Witness ==
    \E p \in Procs :
        /\ SearchDone(p)
        /\ \E i \in 1..Len(packages[p]) :
              /\ ~starts_with(to_lowercase(packages[p][i].name),
                              to_lowercase(argv[p].package))
              /\ MatchesRule(packages[p][i].name, argv[p].package)

\* C7: search keeps a candidate of the response if and only if it matches
\* one of the three rules, whatever non-alphanumeric character bounds the
\* token.
C7_KeptIffMatchesARule ==
    \A p \in Procs :
        SearchDone(p) =>
            \A i \in 1..Len(aur_search) :
                (aur_search[i] \in Range(packages[p]))
                    <=> MatchesRule(aur_search[i].name, argv[p].package)

\* C8: the result of search is the response with some packages left out,
\* the others unchanged and in the order of the response, and a package
\* whose name contains the query only as a substring that is neither a
\* prefix nor a token is left out.
C8_OrderPreservingSubsequence ==
    \A p \in Procs :
        SearchDone(p) =>
            /\ IsSubsequence(packages[p], aur_search)
            /\ \A i \in 1..Len(aur_search) :
                  LET name == to_lowercase(aur_search[i].name)
                      query == to_lowercase(argv[p].package)
                  IN  (/\ ContainsSubstring(name, query)
                       /\ ~MatchesRule(aur_search[i].name, argv[p].package))
                          => aur_search[i] \notin Range(packages[p])

\* C8 witness: the scenario: for the query foo and the response foobar,
\* barfoo, oo-foo-bar, xyz the result is foobar, oo-foo-bar.
C8_Witness ==
    \E p \in Procs :
        /\ SearchDone(p)
        /\ argv[p].package = foo
        /\ aur_search = ScenarioResults
        /\ packages[p] = <<ScenarioResults[1], ScenarioResults[3]>>

\* C10: the suggestions shown are the first min(cap, n) of the n filtered
\* packages, in their order and unchanged, with cap = 5.
C10_ShownAreFirstCap ==
    \A p \in Procs :
        (pc[p] = "exited" /\ SearchDone(p)) =>
            /\ Len(shown[p]) = Min(SuggestionCap, Len(packages[p]))
            /\ \A i \in 1..Len(shown[p]) :
                  /\ shown[p][i].index = i
                  /\ shown[p][i].name = packages[p][i].name
                  /\ shown[p][i].description =
                        IF packages[p][i].description = None
                        THEN NoDescription
                        ELSE packages[p][i].description[1]

\* C10 witness: more than cap packages were found and cap of them shown,
\* of two different names.
C10_Witness ==
    \E p \in Procs :
        /\ pc[p] = "exited"
        /\ Len(packages[p]) > SuggestionCap
        /\ Len(shown[p]) = SuggestionCap
        /\ shown[p][1].name # shown[p][2].name

(***************************************************************************)
(* Properties of the install and remove pipelines, checked under Spec.     *)
(***************************************************************************)

\* C1: in every install job the relaxed build (makepkg -si --skippgpcheck)
\* is invoked if and only if the primary build (makepkg -si) of that job
\* failed: never after a successful primary build, never without a primary
\* build before it, at most once, and a failed primary build is followed
\* by the relaxed build before the job can end.
C1_RetryIffPrimaryFailed ==
    \A p \in Procs :
        /\ Cardinality(PrimaryBuilds(p)) <= 1
        /\ Cardinality(RelaxedBuilds(p)) <= 1
        /\ \A i \in RelaxedBuilds(p) :
              \E j \in PrimaryBuilds(p) : j < i /\ Failed(calls[p][j])
        /\ \A j \in PrimaryBuilds(p) :
              IF Failed(calls[p][j])
              THEN RelaxedBuilds(p) # {} \/ pc[p] = "makepkg_skippgpcheck"
              ELSE RelaxedBuilds(p) = {}

\* C1 witness: a job has ended after a failed primary build and a relaxed
\* build.
C1_Witness ==
    \E p \in Procs :
        /\ pc[p] = "exited"
        /\ \E j \in PrimaryBuilds(p) : Failed(calls[p][j])
        /\ RelaxedBuilds(p) # {}

\* the terminal errors: a remote query that failed, a clone, a relaxed
\* build or a removal that failed
HitTerminalError(p) ==
    \E i \in 1..Len(calls[p]) :
        LET c == calls[p][i]
        IN  \/ c.op \in {"info", "search"} /\ c.res \in HttpErrors
            \/ c.op = "git_clone" /\ Failed(c)
            \/ i \in RelaxedBuilds(p) /\ Failed(c)
            \/ c.op = "pacman" /\ Failed(c)

\* C2: every invocation that hit a terminal error ends with a non-zero
\* exit status.
C2_TerminalErrorsExitNonZero ==
    \A p \in Procs :
        (pc[p] = "exited" /\ HitTerminalError(p)) => status[p] = Some(ExitFailure)

\* C3: whatever earlier invocations left in the workspace, the directory
\* exists and is empty when the preparation is over and the clone starts.
C3_PreparedWorkspaceIsEmpty ==
    \A p \in Procs :
        pc[p] = "git_clone" => fs[build_dir(p)] = EmptyDir

\* C3 witness: the preparation found files of an earlier invocation in the
\* directory, and the clone is about to start.
C3_Witness ==
    \E p \in Procs :
        /\ pc[p] = "git_clone"
        /\ \E i \in 1..Len(calls[p]) :
              calls[p][i].op = "exists" /\ calls[p][i].res = "nonempty"
        /\ fs[build_dir(p)] = EmptyDir

\* C4: the outcome reported by a job that built is a function of its build
\* attempts: clean success exactly when the primary build succeeded,
\* success with the verification skipped exactly when the primary build
\* failed and the relaxed one succeeded, after two invocations, and
\* failure with the key-import guidance exactly when both failed.
C4_OutcomeFollowsBuilds ==
    \A p \in Procs :
        (pc[p] = "exited" /\ PrimaryBuilds(p) # {}) =>
            LET primary_ok == \E j \in PrimaryBuilds(p) : ~Failed(calls[p][j])
                relaxed_ok == \E i \in RelaxedBuilds(p) : ~Failed(calls[p][i])
                relaxed_failed == \E i \in RelaxedBuilds(p) : Failed(calls[p][i])
            IN  /\ Printed(p, "Successfully installed:") <=> primary_ok
                /\ Printed(p, "Successfully installed with PGP check skip:")
                      <=> (~primary_ok /\ relaxed_ok
                           /\ Len(CallsOf(p, "makepkg")) = 2)
                /\ Printed(p, "You may need to manually import PGP keys:")
                      <=> (~primary_ok /\ relaxed_failed)

\* C5: a failed clone ends the job: the clone was tried once, no build was
\* or will be invoked, and the job has ended reporting the failure and no
\* success.
C5_CloneFailureIsTerminal ==
    \A p \in Procs :
        (\E i \in 1..Len(calls[p]) :
            calls[p][i].op = "git_clone" /\ Failed(calls[p][i])) =>
            /\ pc[p] = "exited"
            /\ Len(CallsOf(p, "git_clone")) = 1
            /\ CallsOf(p, "makepkg") = << >>
            /\ Printed(p, "Failed to clone repository") \/ Printed(p, "Error:")
            /\ ~Printed(p, "Successfully installed:")
            /\ ~Printed(p, "Successfully installed with PGP check skip:")

\* C5 witness: a clone has exited with a non-zero status.
C5_Witness ==
    \E p \in Procs :
        \E i \in 1..Len(calls[p]) :
            calls[p][i].op = "git_clone" /\ calls[p][i].res = "nonzero"

\* C9: an install invocation issues the exact lookup once; it issues the
\* search if and only if the lookup found nothing, once, for the name it
\* was given and after the lookup; and when the search is answered the
\* invocation ends with the suggestions (or their absence) and no error.
C9_SearchIffNotFound ==
    \A p \in Procs :
        LET infos == CallsOf(p, "info")
            searches == CallsOf(p, "search")
        IN  /\ Len(infos) <= 1
            /\ (argv[p].cmd = "install" /\ pc[p] # "get_package_info")
                  => Len(infos) = 1 /\ calls[p][1].op = "info"
            /\ \A i \in 1..Len(infos) : infos[i].arg = argv[p].package
            /\ Len(searches) <= 1
            /\ \A i \in 1..Len(searches) :
                  /\ Len(infos) = 1
                  /\ infos[1].res = "none"
                  /\ searches[i].arg = argv[p].package
            /\ (\E i \in 1..Len(infos) : infos[i].res = "none")
                  => (Len(searches) = 1 \/ pc[p] = "suggest_similar_packages")
            /\ (pc[p] = "exited" /\ SearchDone(p)) =>
                  /\ status[p] = Some(ExitSuccess)
                  /\ ~Printed(p, "Error:")
                  /\ Printed(p, "No similar packages found.")
                        \/ Printed(p, "Did you mean:")

\* C9 witness: an invocation has ended after a lookup that found nothing
\* and the search that followed it.
C9_Witness ==
    \E p \in Procs :
        /\ pc[p] = "exited"
        /\ Len(calls[p]) = 2
        /\ calls[p][1].op = "info" /\ calls[p][1].res = "none"
        /\ calls[p][2].op = "search" /\ calls[p][2].res = "ok"
        /\ status[p] = Some(ExitSuccess)

(***************************************************************************)
(* Further properties of the pipelines.                                    *)
(***************************************************************************)

\* C11: for every metadata response, the exact lookup returns the first
\* element of results when there is one, never a later one, and none when
\* results is empty.
C11_LookupReturnsFirst ==
    \A p \in Procs :
        response[p] # None =>
            LET results == response[p][1]
            IN  IF results = << >>
                THEN pkg[p] = None
                ELSE pkg[p] # None /\ pkg[p][1] = results[1]

\* C11 witness: the response held two different packages and the lookup
\* returned the first.
C11_Witness ==
    \E p \in Procs :
        /\ response[p] # None
        /\ Len(response[p][1]) = 2
        /\ response[p][1][1] # response[p][1][2]
        /\ pkg[p] = Some(response[p][1][1])

\* C12: a remove invocation calls the package manager once, with the
\* package it was given, and when the package manager exits with a
\* non-zero status the failure reaches the caller: the invocation does not
\* end as a success and prints no success.
C12_RemovalFailurePropagates ==
    \A p \in Procs :
        (pc[p] = "exited" /\ argv[p].cmd = "remove") =>
            /\ Len(calls[p]) = 1
            /\ calls[p][1].op = "pacman"
            /\ calls[p][1].arg = argv[p].package
            /\ calls[p][1].res = "nonzero" =>
                  /\ status[p] = Some(ExitFailure)
                  /\ ~Printed(p, "Successfully removed:")

\* C13: every path a job uses, to test, remove and create the workspace,
\* as the clone target and as the working directory of the builds, is the
\* fixed root joined with the package_base of the resolved record; the
\* name typed by the user is not a component of it unless it is the
\* package_base.
C13_WorkspacePathFromBuildBase ==
    \A p \in Procs :
        \A i \in 1..Len(calls[p]) :
            LET c == calls[p][i]
                uses_path ==
                    c.op \in {"exists", "remove_dir_all", "create_dir_all",
                              "git_clone", "makepkg"}
                path == IF c.op = "makepkg" THEN c.cwd[1] ELSE c.arg
            IN  uses_path =>
                    /\ pkg[p] # None
                    /\ IF c.op = "makepkg" THEN c.cwd # None ELSE c.cwd = None
                    /\ path = <<home_dir, aur_builds, pkg[p][1].package_base>>
                    /\ argv[p].package # pkg[p][1].package_base =>
                          \A k \in 1..Len(path) : path[k] # argv[p].package

\* C13 witness: a job whose record carries a package_base other than the
\* name typed has tested, removed and created its workspace, cloned into
\* it and run a build in it.
C13_Witness ==
    \E p \in Procs :
        /\ pkg[p] # None
        /\ argv[p].package # pkg[p][1].package_base
        /\ \A op \in {"exists", "remove_dir_all", "create_dir_all", "git_clone",
                      "makepkg"} : CallsOf(p, op) # << >>

\* C14: a transport or decoding error of the exact lookup or of the search
\* ends the invocation: the failed query is its last call and was issued
\* once, the process exits with a failure status, and when the failed
\* query is the exact lookup it is the only call, so no search, no
\* removal or creation of the workspace, no clone and no build follow.
C14_QueryErrorsAreTerminal ==
    \A p \in Procs :
        \A i \in 1..Len(calls[p]) :
            LET c == calls[p][i]
            IN  (c.op \in {"info", "search"} /\ c.res \in HttpErrors) =>
                    /\ pc[p] = "exited"
                    /\ i = Len(calls[p])
                    /\ Len(CallsOf(p, c.op)) = 1
                    /\ status[p] = Some(ExitFailure)
                    /\ c.op = "info" => Len(calls[p]) = 1

\* C14 witness: an invocation has ended on a failed exact lookup.
C14_Witness ==
    \E p \in Procs :
        /\ pc[p] = "exited"
        /\ argv[p].cmd = "install"
        /\ Len(calls[p]) = 1
        /\ calls[p][1].op = "info"
        /\ calls[p][1].res \in HttpErrors

\* The subprocess step of invocation p (clone, primary build, relaxed build
\* or removal) fails for the given cause and leaves the invocation at
\* next_pc with exit_status.
SubprocessFails(p, cause, next_pc, exit_status) ==
    /\ \/ InstallGitClone(p)
       \/ InstallMakepkg(p)
       \/ InstallMakepkgSkipPgp(p)
       \/ RemovePackage(p)
    /\ calls'[p][Len(calls'[p])].res = cause
    /\ pc'[p] = next_pc
    /\ status'[p] = exit_status

\* C15: at every subprocess step, a program that cannot be launched and a
\* program that exits with a non-zero status take the invocation to the
\* same next step and the same exit status.
C15_LaunchAndExitFailuresAlike ==
    \A p \in Procs :
        \A next_pc \in {"makepkg_skippgpcheck", "exited"} :
            \A exit_status \in {None, Some(ExitSuccess), Some(ExitFailure)} :
                ENABLED SubprocessFails(p, "launch_err", next_pc, exit_status)
                    <=> ENABLED SubprocessFails(p, "nonzero", next_pc, exit_status)

\* C16: every step follows the success of the one before it.  The
\* workspace is tested, removed, created, cloned into and built in only
\* after the exact lookup returned a record; a failed removal or creation
\* is the last call of the invocation; the clone directly follows a
\* successful creation, and a successful removal when the directory
\* existed; the primary build directly follows a successful clone.
C16_StepsGatedOnPrior ==
    \A p \in Procs :
        \A i \in 1..Len(calls[p]) :
            LET c == calls[p][i]
            IN  /\ c.op \in {"exists", "remove_dir_all", "create_dir_all",
                             "git_clone", "makepkg"} =>
                      /\ i > 1
                      /\ calls[p][1].op = "info"
                      /\ calls[p][1].res = "some"
                /\ (c.op \in {"remove_dir_all", "create_dir_all"} /\ c.res = "err") =>
                      /\ i = Len(calls[p])
                      /\ pc[p] = "exited"
                /\ c.op = "git_clone" =>
                      /\ calls[p][i - 1].op = "create_dir_all"
                      /\ calls[p][i - 1].res = "ok"
                      /\ \A j \in 1..(i - 1) :
                            (calls[p][j].op = "exists" /\ calls[p][j].res # "absent") =>
                                \E k \in (j + 1)..(i - 1) :
                                    /\ calls[p][k].op = "remove_dir_all"
                                    /\ calls[p][k].res = "ok"
                /\ (c.op = "makepkg" /\ c.arg = <<"-si">>) =>
                      /\ calls[p][i - 1].op = "git_clone"
                      /\ calls[p][i - 1].res = "ok"

\* C16 witness: a job has removed the old workspace, created the new one,
\* cloned into it and started the primary build.
C16_Witness ==
    \E p \in Procs :
        /\ Len(calls[p]) = 6
        /\ calls[p][3].op = "remove_dir_all" /\ calls[p][3].res = "ok"
        /\ calls[p][4].op = "create_dir_all" /\ calls[p][4].res = "ok"
        /\ calls[p][5].op = "git_clone" /\ calls[p][5].res = "ok"
        /\ calls[p][6].op = "makepkg" /\ calls[p][6].arg = <<"-si">>

\* invocation p is a job on directory d at one of the given steps
JobAt(p, d, steps) ==
    /\ pkg[p] # None
    /\ build_dir(p) = d
    /\ pc[p] \in steps

\* C17: a step changes a workspace only when it is a preparation, clone or
\* build step of a job for that package_base, and it removes the directory
\* or a file in it only when it is the removal of the preparation; so a
\* job that ends, in failure or in success, leaves the workspace with all
\* it holds, and nothing changes it until a later job for the same
\* package_base.
C17_WorkspaceRemovedOnlyByPreparation ==
    [][\A d \in Paths :
          /\ fs'[d] # fs[d] =>
                \E p \in Procs :
                    JobAt(p, d, {"remove_dir_all", "create_dir_all", "git_clone",
                                 "makepkg", "makepkg_skippgpcheck"})
          /\ (fs[d].exists /\ (~fs'[d].exists \/ ~(fs[d].files \subseteq fs'[d].files))) =>
                \E p \in Procs : JobAt(p, d, {"remove_dir_all"})]_vars

\* C17 witness: a job has ended on a failed clone or a failed relaxed build
\* and its workspace is on disk with the files the failure left.
C17_Witness ==
    \E p \in Procs :
        /\ pc[p] = "exited"
        /\ pkg[p] # None
        /\ calls[p][Len(calls[p])].op \in {"git_clone", "makepkg"}
        /\ calls[p][Len(calls[p])].res \in {"launch_err", "nonzero"}
        /\ fs[build_dir(p)].exists
        /\ "partial" \in fs[build_dir(p)].files

\* Invocation p has just removed directory d while invocation q, a job on
\* the same directory, is past its own preparation and has not finished
\* its clone or its builds.
RemovedUnder(p, q, d) ==
    /\ p # q
    /\ JobAt(p, d, {"create_dir_all"})
    /\ calls[p][Len(calls[p])].op = "remove_dir_all"
    /\ calls[p][Len(calls[p])].res = "ok"
    /\ JobAt(q, d, {"git_clone", "makepkg", "makepkg_skippgpcheck"})

Race == \E p, q \in Procs : \E d \in Paths : RemovedUnder(p, q, d)

\* C18: the removal of the preparation step takes no lock, it can proceed
\* whatever the other invocation is doing; and a removal under a job that
\* is cloning or building happens only when the two invocations were
\* started concurrently, never when they run one after the other.
C18_RaceOnlyWhenConcurrent ==
    /\ \A p \in Procs : pc[p] = "remove_dir_all" => ENABLED InstallRemoveDirAll(p)
    /\ Race => schedule = "concurrent"

\* C18 witness: two invocations resolved to the same package_base, and one
\* has removed the workspace while the other is building in it.
C18_Witness ==
    \E p, q \in Procs :
        /\ RemovedUnder(p, q, build_dir_of(pkg[p][1].package_base))
        /\ pc[q] \in {"makepkg", "makepkg_skippgpcheck"}
        /\ ~fs[build_dir_of(pkg[q][1].package_base)].exists

\* how many calls of the given kind invocation p has issued
Count(p, op) == Len(CallsOf(p, op))

\* the calls an invocation has issued stay within what one pass through
\* install_package or remove_package issues
CallsWithinBudget(p) ==
    /\ Count(p, "info") <= 1
    /\ Count(p, "search") <= 1
    /\ Count(p, "remove_dir_all") <= 1
    /\ Count(p, "git_clone") <= 1
    /\ Count(p, "makepkg") <= 2
    /\ ~(Count(p, "search") > 0 /\ Count(p, "git_clone") > 0)
    /\ argv[p].cmd = "install" => Count(p, "pacman") = 0
    /\ argv[p].cmd = "remove" =>
          /\ Len(calls[p]) = Count(p, "pacman")
          /\ Count(p, "pacman") = (IF pc[p] = "exited" THEN 1 ELSE 0)

\* C19: when every call an invocation waits for returns, every invocation
\* that was started exits; an install issues at most one exact lookup, one
\* search, one removal of the workspace, one clone and two builds, and
\* never both a search and a clone; a remove issues exactly one call of
\* the package manager.
C19_TerminatesWithinBudget ==
    /\ [](\A p \in Procs : CallsWithinBudget(p))
    /\ \A p \in Procs : (pc[p] # "idle") ~> (pc[p] = "exited")

\* C19 witness: an install has exited after one lookup, one removal, one
\* clone and two builds.
C19_Witness ==
    \E p \in Procs :
        /\ pc[p] = "exited"
        /\ Count(p, "info") = 1
        /\ Count(p, "remove_dir_all") = 1
        /\ Count(p, "git_clone") = 1
        /\ Count(p, "makepkg") = 2

=============================================================================
